---- MODULE Spec2Model ----
(***************************************************************************)
(* Model of sharepoint-client-api: the fluent request builder              *)
(* MicrosoftSharePointWrapper (src/src/client.ts) and the connector        *)
(* functions (src/src/interfaces/azure-app-credentials.ts).                *)
(*                                                                         *)
(* Strings.  An atomic piece of text is a TLA+ string.  A text whose       *)
(* inner structure matters (a hostname that String.replace searches, a     *)
(* URL, a query string, an error message) is a sequence of such pieces in  *)
(* the order the template literal concatenates them.                       *)
(* Optional values.  undefined and "" are both falsy in the places the     *)
(* code tests them (||, ?:, !), so an absent string is "" and an absent    *)
(* status is 0.                                                            *)
(* Objects.  A header object is a function from header names to values.    *)
(* queryParams is an object whose insertion order decides the query        *)
(* string, so it is a sequence of <<key, value>> pairs with unique keys.   *)
(***************************************************************************)
EXTENDS Integers, Sequences, FiniteSets, TLC

\* ------------------------------------------------------------------------
\* Bounds
\* ------------------------------------------------------------------------

\* Configuration calls (stage entries and modifiers) made on the instance
\* since its in-flight state was last reset by a terminal call, or since
\* construction.
MaxOps == 3

\* Terminal calls that may be pending on the instance at the same time.
MaxCalls == 2

CallIds == 1..MaxCalls

\* ------------------------------------------------------------------------
\* Input domains
\* ------------------------------------------------------------------------

SharePointSuffix == ".sharepoint.com"

\* Hostnames: connectWithSharePoint is given the documented form
\* {tenant}.sharepoint.com, connectWithToken one that has the text
\* ".sharepoint.com" before its end.
Hostnames == { <<"contoso", SharePointSuffix>> }

\* Tokens the identity provider hands out, and the token of a caller of
\* connectWithToken.
AccessTokens == {"tokA"}

KnownTokens == {"tokB"}

KnownHostnames == { <<"contoso", SharePointSuffix, ".cn">> }

SiteNames == {"mysite"}

SiteEndpoints == {"lists"}

AdminEndpoints == {"/Sites('abc')"}

HeaderOverrides ==
  { "X-Custom-Header" :> "value",
    ("Authorization" :> "Bearer other") @@ ("X-RequestDigest" :> "stale") }

\* fields arguments of select/expand: a single string or an array of strings.
FieldArgs ==
  { [isArray |-> FALSE, str |-> "Author", arr |-> <<>>],
    [isArray |-> TRUE, str |-> "", arr |-> <<"Id", "Title">>] }

SelectArgs == { f \in FieldArgs : f.isArray }

ExpandArgs == { f \in FieldArgs : ~f.isArray }

FilterArgs == {"Title eq 'Documents'"}

OrderFields == {"Created"}

Counts == {5}

\* A value of a rawQuery object: a string or a number.
StrVal(s) == [isNum |-> FALSE, str |-> s, num |-> 0]
NumVal(n) == [isNum |-> TRUE, str |-> "", num |-> n]

\* rawQuery arguments: the object's entries in Object.entries order.
RawArgs ==
  { << <<"$select", StrVal("x")>>, <<"custom", NumVal(1)>> >> }

Verbs == {"GET", "POST", "PUT", "PATCH", "DELETE"}

DigestValues == {"digestA", "digestB"}

Bodies == {"item"}

\* ------------------------------------------------------------------------
\* Helpers: objects and strings
\* ------------------------------------------------------------------------

EmptyMap == [k \in {} |-> ""]

\* { ...a, ...b }
Spread(a, b) ==
  [k \in (DOMAIN a) \cup (DOMAIN b) |-> IF k \in DOMAIN b THEN b[k] ELSE a[k]]

\* obj[key] = value on an object kept in insertion order: an existing key
\* keeps its place and takes the new value, a new key goes last.
\* SetKey as if an assignment to an existing key added a second entry.
SetKey_AlwaysAppends(obj, key, value) == Append(obj, <<key, value>>)

SetKey(obj, key, value) ==
  IF \E i \in 1..Len(obj) : obj[i][1] = key
    THEN [i \in 1..Len(obj) |->
            IF obj[i][1] = key THEN <<key, value>> ELSE obj[i]]
    ELSE Append(obj, <<key, value>>)

\* Array.prototype.join(sep) on an array of strings.
RECURSIVE Join(_, _)
Join(arr, sep) ==
  IF Len(arr) = 0 THEN ""
  ELSE IF Len(arr) = 1 THEN arr[1]
  ELSE arr[1] \o sep \o Join(Tail(arr), sep)

\* String(value) for the values of a rawQuery object.
JsString(val) == IF val.isNum THEN ToString(val.num) ELSE val.str

\* String.prototype.replace(pattern, replacement) with a string pattern:
\* only the first occurrence is replaced, wherever it is.
Replace(s, pat, rep) ==
  LET hits == { i \in 1..(Len(s) - Len(pat) + 1) :
                  SubSeq(s, i, i + Len(pat) - 1) = pat }
  IN  IF hits = {} THEN s
      ELSE LET i == CHOOSE h \in hits : \A g \in hits : h <= g
           IN  SubSeq(s, 1, i - 1) \o rep \o SubSeq(s, i + Len(pat), Len(s))

\* ------------------------------------------------------------------------
\* MicrosoftSharePointWrapper: fields and synchronous methods
\* ------------------------------------------------------------------------

\* constructor(siteHostname, headers)
NewWrapper(siteHostname, headers) ==
  [ siteHostname       |-> siteHostname,
    headers            |-> headers,
    endpoint           |-> "",
    siteName           |-> "",
    isAdmin            |-> FALSE,
    tempHeaders        |-> EmptyMap,
    shouldIgnoreErrors |-> FALSE,
    initialized        |-> FALSE,
    queryParams        |-> <<>> ]

api(w, siteName, endpoint) ==
  [w EXCEPT !.siteName = siteName,
            !.endpoint = endpoint,
            !.isAdmin = FALSE,
            !.initialized = TRUE,
            !.queryParams = <<>>]

adminApi(w, endpoint) ==
  [w EXCEPT !.endpoint = endpoint,
            !.siteName = "",
            !.isAdmin = TRUE,
            !.initialized = TRUE,
            !.queryParams = <<>>]

\* setHeaders as if it merged the overrides into the headers of the instance.
setHeaders_IntoBaseHeaders(w, overrides) ==
  [w EXCEPT !.headers = Spread(@, overrides)]

\* this.tempHeaders = overrides
setHeaders(w, overrides) == [w EXCEPT !.tempHeaders = overrides]

ignore(w) == [w EXCEPT !.shouldIgnoreErrors = TRUE]

\* Array.isArray(fields) ? fields.join(",") : fields
FieldsValue(fields) ==
  IF fields.isArray THEN Join(fields.arr, ",") ELSE fields.str

select(w, fields) ==
  [w EXCEPT !.queryParams = SetKey(@, "$select", FieldsValue(fields))]

filter(w, condition) ==
  [w EXCEPT !.queryParams = SetKey(@, "$filter", condition)]

expand(w, fields) ==
  [w EXCEPT !.queryParams = SetKey(@, "$expand", FieldsValue(fields))]

orderBy(w, field, ascending) ==
  [w EXCEPT !.queryParams =
     SetKey(@, "$orderby", field \o " " \o (IF ascending THEN "asc" ELSE "desc"))]

top(w, count) ==
  [w EXCEPT !.queryParams = SetKey(@, "$top", ToString(count))]

skip(w, count) ==
  [w EXCEPT !.queryParams = SetKey(@, "$skip", ToString(count))]

\* Object.entries(params).forEach(([key, value]) => queryParams[key] = String(value))
RECURSIVE RawEntries(_, _)
RawEntries(qp, params) ==
  IF Len(params) = 0 THEN qp
  ELSE RawEntries(SetKey(qp, params[1][1], JsString(params[1][2])), Tail(params))

rawQuery(w, params) ==
  [w EXCEPT !.queryParams = RawEntries(@, params)]

\* entries.map(([k, v]) => `${k}=${v}`).join("&"), as pieces
RECURSIVE QueryPieces(_)
QueryPieces(entries) ==
  IF Len(entries) = 0 THEN <<>>
  ELSE <<entries[1][1], "=", entries[1][2]>>
       \o (IF Len(entries) = 1 THEN <<>> ELSE <<"&">> \o QueryPieces(Tail(entries)))

buildQueryString(w) ==
  IF Len(w.queryParams) = 0 THEN <<>>
  ELSE <<"?">> \o QueryPieces(w.queryParams)

\* const baseUrl = this.isAdmin ? ... : ...
BaseUrl(w) ==
  IF w.isAdmin
    THEN <<"https://">> \o Replace(w.siteHostname, <<SharePointSuffix>>, <<>>)
         \o <<"-admin.sharepoint.com/_api/", w.endpoint>>
    ELSE <<"https://">> \o w.siteHostname
         \o <<"/sites/", w.siteName, "/_api/", w.endpoint>>

FullUrl(w) == BaseUrl(w) \o buildQueryString(w)

\* const headers = { ...this.headers, ...this.tempHeaders }
MergedHeaders(w) == Spread(w.headers, w.tempHeaders)

\* `https://${this.siteHostname}/_api/contextinfo`
ContextInfoUrl(w) == <<"https://">> \o w.siteHostname \o <<"/_api/contextinfo">>

\* ResetState as if the finally block left initialized as it is.
ResetState_KeepsInitialized(w) ==
  [w EXCEPT !.tempHeaders = EmptyMap,
            !.isAdmin = FALSE,
            !.shouldIgnoreErrors = FALSE,
            !.queryParams = <<>>]

\* finally { ... }: reset temporary state
ResetState(w) ==
  [w EXCEPT !.tempHeaders = EmptyMap,
            !.isAdmin = FALSE,
            !.shouldIgnoreErrors = FALSE,
            !.initialized = FALSE,
            !.queryParams = <<>>]

\* ------------------------------------------------------------------------
\* Connector (azure-app-credentials.ts)
\* ------------------------------------------------------------------------

\* Responses of the identity provider to the token POST.  ok: a 2xx answer,
\* whose body carries access_token or not; otherwise axios rejects, with a
\* response (status # 0) or without one.
TokenResponses ==
  { [ok |-> TRUE, access_token |-> t, status |-> 200] : t \in AccessTokens \cup {""} }
  \cup { [ok |-> FALSE, access_token |-> "", status |-> s] : s \in {0, 400} }

\* fetchSharePointAccessToken: what the promise settles to.  The catch block
\* logs and falls off the end of the function, which yields undefined.
\* fetchSharePointAccessToken as if its catch block rethrew.
fetchSharePointAccessToken_Rethrows(resp) ==
  IF resp.ok
    THEN [raised |-> FALSE, token |-> resp.access_token]
    ELSE [raised |-> TRUE, token |-> ""]

fetchSharePointAccessToken(resp) ==
  IF resp.ok
    THEN [raised |-> FALSE, token |-> resp.access_token]
    ELSE [raised |-> FALSE, token |-> ""]

\* The header object both connect functions build.
ConnectHeaders(accessToken) ==
  ("Accept" :> "application/json;odata=verbose")
  @@ ("Content-Type" :> "application/json;odata=verbose")
  @@ ("Authorization" :> "Bearer " \o accessToken)

TokenFailure == "Failed to obtain access token for SharePoint."

\* ------------------------------------------------------------------------
\* makeRequest: errors and outcomes
\* ------------------------------------------------------------------------

\* What axios rejects with: status is error.response?.status, code and
\* remoteMessage are error.response?.data?.error?.code and ...message?.value,
\* message is error.message.
AxiosErrors ==
  { [status |-> 0, code |-> "", remoteMessage |-> "", message |-> "Network Error"],
    [status |-> 403, code |-> "-2147024891", remoteMessage |-> "Access denied.",
     message |-> "Request failed with status code 403"],
    [status |-> 404, code |-> "-1, ResourceNotFoundException", remoteMessage |-> "",
     message |-> "Request failed with status code 404"],
    [status |-> 500, code |-> "", remoteMessage |-> "",
     message |-> "Request failed with status code 500"],
    [status |-> 0, code |-> "", remoteMessage |-> "", message |-> ""] }

DigestErrors == { e \in AxiosErrors : e.message = "Network Error" \/ e.status = 403 }

ConfigurationError ==
  <<"You must call .api() or .adminApi() before making a request.">>

\* spError?.message?.value || error.message || "Unknown SharePoint API error"
ErrorText(error) ==
  IF error.remoteMessage # "" THEN error.remoteMessage
  ELSE IF error.message # "" THEN error.message
  ELSE "Unknown SharePoint API error"

\* const cleanMessage = ...
CleanMessage(method, endpoint, error) ==
  <<"Microsoft SharePoint API Error at: ", method, " ", endpoint>>
  \o (IF error.status # 0 THEN <<" (Status: ", ToString(error.status), ")">> ELSE <<>>)
  \o (IF error.code # "" THEN <<" (Code: ", error.code, ")">> ELSE <<>>)
  \o <<" - ", ErrorText(error)>>

\* How a terminal call ended.  kind: "value" (response.data), "null" (ignored
\* failure), "configError", "spError" (the enriched error) or "rawError" (an
\* error of the transport that makeRequest let through).
NoError == [status |-> 0, code |-> "", remoteMessage |-> "", message |-> ""]

NoOutcome == [kind |-> "none", data |-> "", message |-> <<>>]
Outcome(kind, data, message) == [kind |-> kind, data |-> data, message |-> message]

\* CatchOutcome as if only failures that carry a response were ignorable.
CatchOutcome_IgnoresResponsesOnly(w, method, error) ==
  IF w.shouldIgnoreErrors /\ error.status # 0
    THEN Outcome("null", "", <<>>)
    ELSE Outcome("spError", "", CleanMessage(method, w.endpoint, error))

\* catch (error) { ... } of makeRequest, on the wrapper as it is at that moment.
CatchOutcome(w, method, error) ==
  IF w.shouldIgnoreErrors
    THEN Outcome("null", "", <<>>)
    ELSE Outcome("spError", "", CleanMessage(method, w.endpoint, error))

\* NeedsDigest as if only POST fetched a digest.
NeedsDigest_PostOnly(method) == method = "POST"

\* method !== HttpMethod.GET
NeedsDigest(method) == method # "GET"

\* JSON.stringify(data); data is undefined ("") for get() and delete().
JsonStringify(data) == IF data = "" THEN "" ELSE "{" \o data \o "}"

\* InjectDigest as if a digest header that is already there were kept.
InjectDigest_KeepsExisting(headers, value) ==
  Spread("X-RequestDigest" :> value, headers)

\* headers["X-RequestDigest"] = await this.getRequestDigest()
InjectDigest(headers, value) == Spread(headers, "X-RequestDigest" :> value)

DigestRequest(w) ==
  [kind |-> "digest", method |-> "POST", url |-> ContextInfoUrl(w),
   headers |-> w.headers, body |-> "", done |-> FALSE]

MainRequest(method, fullUrl, headers, data) ==
  [kind |-> "main", method |-> method, url |-> fullUrl, headers |-> headers,
   body |-> IF method # "GET" THEN JsonStringify(data) ELSE "", done |-> FALSE]

\* ------------------------------------------------------------------------
\* State
\* ------------------------------------------------------------------------

VARIABLES
  conn,     \* connectWithSharePoint: its position, options and result
  built,    \* the wrapper instance has been constructed
  ctor,     \* the arguments the instance was constructed with
  sp,       \* the MicrosoftSharePointWrapper instance
  calls,    \* the makeRequest activations: locals, position, requests issued
  caller,   \* how the caller uses the instance: "sequential" awaits each
            \* terminal verb before its next call on the instance
  cycle,    \* the caller's chain since the last terminal call (history)
  peer      \* a second wrapper instance, with its makeRequest activation

vars == <<conn, built, ctor, sp, calls, caller, cycle, peer>>

\* History of the chain being built.  staged: a stage entry was made, and
\* entry holds its arguments; ignored: ignore() was chained after it;
\* params: the query keys set after it, each with the text last given for
\* it; overwritten: one of them was set more than once; lastOp: the last
\* configuration call; overlay: the argument of the last setHeaders();
\* clobbered: the finally block of a terminal call ran after the stage entry;
\* fresh: a wrapper constructed with the same arguments that received the
\* same calls and nothing else; n: configuration calls made on the
\* instance since its state was last reset or, by a caller that does not
\* await its terminal calls, since construction.
NewCycle(c) ==
  [ staged |-> FALSE, entry |-> [siteName |-> "", endpoint |-> ""],
    ignored |-> FALSE, params |-> EmptyMap, overwritten |-> FALSE, lastOp |-> "",
    overlay |-> EmptyMap, clobbered |-> FALSE,
    fresh |-> NewWrapper(c.siteHostname, c.headers), n |-> 0 ]

NoCtor == [siteHostname |-> <<>>, headers |-> EmptyMap]

\* An activation of makeRequest: its position, its locals (method, data,
\* fullUrl, headers, digest, error), the requests it has issued and how it
\* ended.  History: cycle, the chain it was invoked on; self, the instance
\* as it was at the invocation; resumed, the instance as it was when the
\* digest arrived; flagCleared, the finally block of another call ran while
\* this one was pending and ignore() has not been called since.
IdleCall ==
  [ pc |-> "idle", method |-> "", data |-> "", fullUrl |-> <<>>,
    headers |-> EmptyMap, digest |-> "", net |-> <<>>, caught |-> FALSE,
    error |-> NoError,
    outcome |-> NoOutcome, cycle |-> NewCycle(NoCtor),
    self |-> NewWrapper(<<>>, EmptyMap), resumed |-> NewWrapper(<<>>, EmptyMap),
    flagCleared |-> FALSE ]

\* The second instance before its construction.  n: configuration calls
\* made on it since its state was last reset.
NoPeer ==
  [ built |-> FALSE, sp |-> NewWrapper(<<>>, EmptyMap), call |-> IdleCall, n |-> 0 ]

Init ==
  /\ conn = [pc |-> "idle", siteHostname |-> <<>>, resp |-> [ok |-> FALSE, access_token |-> "", status |-> 0], error |-> ""]
  /\ built = FALSE
  /\ ctor = NoCtor
  /\ sp = NewWrapper(<<>>, EmptyMap)
  /\ calls = [c \in CallIds |-> IdleCall]
  /\ caller = "sequential"
  /\ cycle = NewCycle(NoCtor)
  /\ peer = NoPeer

\* ------------------------------------------------------------------------
\* Connector actions
\* ------------------------------------------------------------------------

\* connectWithSharePoint(options) up to its await: the token POST is sent.
ConnectWithSharePoint(hostname) ==
  /\ ~built
  /\ conn.pc \in {"idle", "rejected"}
  /\ conn' = [conn EXCEPT !.pc = "token", !.siteHostname = hostname, !.error = ""]
  /\ UNCHANGED <<built, ctor, sp, calls, caller, peer, cycle>>

\* The token POST settles; fetchSharePointAccessToken returns and
\* connectWithSharePoint runs to its end.
TokenResponse(resp) ==
  /\ conn.pc = "token"
  /\ LET got == fetchSharePointAccessToken(resp)
         headers == ConnectHeaders(got.token)
     IN  IF got.raised
           THEN /\ conn' = [conn EXCEPT !.pc = "rejected", !.resp = resp,
                                        !.error = "token provider error"]
                /\ UNCHANGED <<built, ctor, sp, cycle>>
         ELSE IF got.token = ""
           THEN /\ conn' = [conn EXCEPT !.pc = "rejected", !.resp = resp,
                                        !.error = TokenFailure]
                /\ UNCHANGED <<built, ctor, sp, cycle>>
         ELSE /\ conn' = [conn EXCEPT !.pc = "resolved", !.resp = resp]
              /\ built' = TRUE
              /\ ctor' = [siteHostname |-> conn.siteHostname, headers |-> headers]
              /\ sp' = NewWrapper(conn.siteHostname, headers)
              /\ cycle' = NewCycle(ctor')
  /\ UNCHANGED <<calls, caller, peer>>

\* connectWithToken(siteHostname, accessToken)
ConnectWithToken(hostname, accessToken) ==
  /\ ~built
  /\ conn.pc = "idle"
  /\ built' = TRUE
  /\ ctor' = [siteHostname |-> hostname, headers |-> ConnectHeaders(accessToken)]
  /\ sp' = NewWrapper(hostname, ConnectHeaders(accessToken))
  /\ cycle' = NewCycle(ctor')
  /\ UNCHANGED <<conn, calls, caller, peer>>

\* ------------------------------------------------------------------------
\* Builder actions: stage entries and modifiers
\* ------------------------------------------------------------------------

\* No terminal call is pending.
Quiescent == \A c \in CallIds : calls[c].pc = "idle"

\* The caller is at a point where it makes its next call on the instance.
CallerReady == caller = "sequential" => Quiescent

CanConfigure == built /\ CallerReady /\ cycle.n < MaxOps

\* The texts the documentation of the modifiers gives for their values: the
\* decimal form of a count, the fields joined by commas, field and direction.
Decimal(n) == <<"0", "1", "2", "3", "4", "5", "6", "7", "8", "9">>[n + 1]

Listed(fields) ==
  IF fields.isArray THEN fields.arr[1] \o "," \o fields.arr[2] ELSE fields.str

Directed(field, ascending) == field \o (IF ascending THEN " asc" ELSE " desc")

\* History after a stage entry, a modifier, a query modifier.
Staged(name, siteName, endpoint, w) ==
  [cycle EXCEPT !.staged = TRUE, !.entry = [siteName |-> siteName, endpoint |-> endpoint],
                !.ignored = FALSE, !.params = EmptyMap, !.overwritten = FALSE,
                !.clobbered = FALSE,
                !.lastOp = name, !.fresh = w, !.n = @ + 1]

Modified(name, w) ==
  [cycle EXCEPT !.lastOp = name, !.fresh = w, !.n = @ + 1]

Queried(name, w, set) ==
  [cycle EXCEPT !.params = [k \in (DOMAIN @) \cup (DOMAIN set) |->
                              IF k \in DOMAIN set THEN set[k] ELSE @[k]],
                !.overwritten = @ \/ (DOMAIN set) \cap (DOMAIN cycle.params) # {},
                !.lastOp = name, !.fresh = w, !.n = @ + 1]

Api(siteName, endpoint) ==
  /\ CanConfigure
  /\ sp' = api(sp, siteName, endpoint)
  /\ cycle' = Staged("api", siteName, endpoint, api(cycle.fresh, siteName, endpoint))
  /\ UNCHANGED <<conn, built, ctor, calls, caller, peer>>

AdminApi(endpoint) ==
  /\ CanConfigure
  /\ sp' = adminApi(sp, endpoint)
  /\ cycle' = Staged("adminApi", "", endpoint, adminApi(cycle.fresh, endpoint))
  /\ UNCHANGED <<conn, built, ctor, calls, caller, peer>>

SetHeaders(overrides) ==
  /\ CanConfigure
  /\ sp' = setHeaders(sp, overrides)
  /\ cycle' = [Modified("setHeaders", setHeaders(cycle.fresh, overrides))
                 EXCEPT !.overlay = overrides]
  /\ UNCHANGED <<conn, built, ctor, calls, caller, peer>>

Ignore ==
  /\ CanConfigure
  /\ sp' = ignore(sp)
  /\ cycle' = [Modified("ignore", ignore(cycle.fresh)) EXCEPT !.ignored = cycle.staged]
  /\ calls' = [c \in CallIds |->
                  IF calls[c].pc \in {"digest", "dispatch"}
                    THEN [calls[c] EXCEPT !.flagCleared = FALSE]
                    ELSE calls[c]]
  /\ UNCHANGED <<conn, built, ctor, caller, peer>>

Select(fields) ==
  /\ CanConfigure
  /\ sp' = select(sp, fields)
  /\ cycle' = Queried("select", select(cycle.fresh, fields),
                      "$select" :> Listed(fields))
  /\ UNCHANGED <<conn, built, ctor, calls, caller, peer>>

Filter(condition) ==
  /\ CanConfigure
  /\ sp' = filter(sp, condition)
  /\ cycle' = Queried("filter", filter(cycle.fresh, condition), "$filter" :> condition)
  /\ UNCHANGED <<conn, built, ctor, calls, caller, peer>>

Expand(fields) ==
  /\ CanConfigure
  /\ sp' = expand(sp, fields)
  /\ cycle' = Queried("expand", expand(cycle.fresh, fields),
                      "$expand" :> Listed(fields))
  /\ UNCHANGED <<conn, built, ctor, calls, caller, peer>>

OrderBy(field, ascending) ==
  /\ CanConfigure
  /\ sp' = orderBy(sp, field, ascending)
  /\ cycle' = Queried("orderBy", orderBy(cycle.fresh, field, ascending),
                      "$orderby" :> Directed(field, ascending))
  /\ UNCHANGED <<conn, built, ctor, calls, caller, peer>>

Top(count) ==
  /\ CanConfigure
  /\ sp' = top(sp, count)
  /\ cycle' = Queried("top", top(cycle.fresh, count), "$top" :> Decimal(count))
  /\ UNCHANGED <<conn, built, ctor, calls, caller, peer>>

Skip(count) ==
  /\ CanConfigure
  /\ sp' = skip(sp, count)
  /\ cycle' = Queried("skip", skip(cycle.fresh, count), "$skip" :> Decimal(count))
  /\ UNCHANGED <<conn, built, ctor, calls, caller, peer>>

\* The keys of a rawQuery argument with the text of their values.
RawSet(params) ==
  [k \in { params[i][1] : i \in 1..Len(params) } |->
     LET last == CHOOSE i \in 1..Len(params) :
                   params[i][1] = k /\ \A j \in 1..Len(params) : params[j][1] = k => j <= i
         val == params[last][2]
     IN  IF val.isNum THEN Decimal(val.num) ELSE val.str]

RawQuery(params) ==
  /\ CanConfigure
  /\ sp' = rawQuery(sp, params)
  /\ cycle' = Queried("rawQuery", rawQuery(cycle.fresh, params), RawSet(params))
  /\ UNCHANGED <<conn, built, ctor, calls, caller, peer>>

\* ------------------------------------------------------------------------
\* Builder actions: terminal verbs (makeRequest)
\* ------------------------------------------------------------------------

\* get() and delete() pass no data; post, put and patch pass a body.
VerbArgs ==
  {<<"GET", "">>, <<"DELETE", "">>} \cup ({"POST", "PUT", "PATCH"} \X Bodies)

FreeCall == CHOOSE c \in CallIds :
              calls[c].pc = "idle" /\ \A d \in CallIds : calls[d].pc = "idle" => c <= d

\* makeRequest(method, data) from its first line to its first await: the
\* initialized check, the URL and the headers, then either the digest POST
\* (getRequestDigest up to its await) or, for GET, the main axios call.
MakeRequest(method, data) ==
  /\ built
  /\ CallerReady
  /\ \E c \in CallIds : calls[c].pc = "idle"
  /\ LET c == FreeCall
         fullUrl == FullUrl(sp)
         headers == MergedHeaders(sp)
         frame == [IdleCall EXCEPT !.method = method, !.data = data, !.cycle = cycle,
                                   !.self = sp]
     IN  IF ~sp.initialized
           THEN /\ calls' = [calls EXCEPT ![c] =
                      [frame EXCEPT !.pc = "done",
                                    !.outcome = Outcome("configError", "", ConfigurationError)]]
                /\ cycle' = cycle
         ELSE /\ calls' = [calls EXCEPT ![c] =
                    IF NeedsDigest(method)
                      THEN [frame EXCEPT !.pc = "digest", !.fullUrl = fullUrl,
                                         !.headers = headers,
                                         !.net = <<DigestRequest(sp)>>]
                      ELSE [frame EXCEPT !.pc = "dispatch", !.fullUrl = fullUrl,
                                         !.headers = headers,
                                         !.net = <<MainRequest(method, fullUrl, headers, data)>>]]
              /\ cycle' = [NewCycle(ctor) EXCEPT !.n = cycle.n]
  /\ UNCHANGED <<conn, built, ctor, sp, caller, peer>>

\* The last request of a call has been answered.
Answered(net) == [net EXCEPT ![Len(net)].done = TRUE]

\* DigestOk as if the URL and the headers were computed from the instance
\* when the digest arrives.
DigestOk_RereadsInstance(c, value) ==
  /\ calls[c].pc = "digest"
  /\ LET f == calls[c]
         headers == InjectDigest(MergedHeaders(sp), value)
     IN  calls' = [calls EXCEPT ![c] =
           [f EXCEPT !.pc = "dispatch", !.headers = headers, !.digest = value,
                     !.resumed = sp,
                     !.net = Append(Answered(f.net),
                                    MainRequest(f.method, FullUrl(sp), headers, f.data))]]
  /\ UNCHANGED <<conn, built, ctor, sp, caller, peer, cycle>>

\* The digest POST succeeds: getRequestDigest returns FormDigestValue, the
\* value goes into the local headers and the main axios call is made.
DigestOk(c, value) ==
  /\ calls[c].pc = "digest"
  /\ LET f == calls[c]
         headers == InjectDigest(f.headers, value)
     IN  calls' = [calls EXCEPT ![c] =
           [f EXCEPT !.pc = "dispatch", !.headers = headers, !.digest = value,
                     !.resumed = sp,
                     !.net = Append(Answered(f.net),
                                    MainRequest(f.method, f.fullUrl, headers, f.data))]]
  /\ UNCHANGED <<conn, built, ctor, sp, caller, peer, cycle>>

\* The digest POST fails.  The await is outside the try statement: the error
\* leaves makeRequest as it is and the finally block does not run.
DigestFail(c, error) ==
  /\ calls[c].pc = "digest"
  /\ calls' = [calls EXCEPT ![c] =
       [calls[c] EXCEPT !.pc = "done", !.net = Answered(calls[c].net),
                        !.outcome = Outcome("rawError", "", <<error.message>>)]]
  /\ UNCHANGED <<conn, built, ctor, sp, caller, peer, cycle>>

\* History of the other pending calls when the finally block of c runs.
Overtaken(c) ==
  [d \in CallIds |->
     IF d # c /\ calls[d].pc \in {"digest", "dispatch"}
       THEN [calls[d] EXCEPT !.flagCleared = TRUE]
       ELSE calls[d]]

\* DispatchOk as if the request-scoped fields were shared by the instances
\* of the class.
DispatchOk_ResetsEveryInstance(c, data) ==
  /\ calls[c].pc = "dispatch"
  /\ calls' = [Overtaken(c) EXCEPT ![c] =
       [calls[c] EXCEPT !.pc = "done", !.net = Answered(calls[c].net),
                        !.outcome = Outcome("value", data, <<>>)]]
  /\ sp' = ResetState(sp)
  /\ peer' = [peer EXCEPT !.sp = ResetState(@)]
  /\ cycle' = [cycle EXCEPT !.n = IF caller = "sequential" THEN 0 ELSE @,
                             !.clobbered = @ \/ cycle.staged]
  /\ UNCHANGED <<conn, built, ctor, caller>>

\* The main axios call succeeds: return response.data, then finally.
DispatchOk(c, data) ==
  /\ calls[c].pc = "dispatch"
  /\ calls' = [Overtaken(c) EXCEPT ![c] =
       [calls[c] EXCEPT !.pc = "done", !.net = Answered(calls[c].net),
                        !.outcome = Outcome("value", data, <<>>)]]
  /\ sp' = ResetState(sp)
  /\ cycle' = [cycle EXCEPT !.n = IF caller = "sequential" THEN 0 ELSE @,
                             !.clobbered = @ \/ cycle.staged]
  /\ UNCHANGED <<conn, built, ctor, caller, peer>>

\* The main axios call fails: catch, then finally.
DispatchFail(c, error) ==
  /\ calls[c].pc = "dispatch"
  /\ calls' = [Overtaken(c) EXCEPT ![c] =
       [calls[c] EXCEPT !.pc = "done", !.net = Answered(calls[c].net),
                        !.caught = TRUE, !.error = error,
                        !.outcome = CatchOutcome(sp, calls[c].method, error)]]
  /\ sp' = ResetState(sp)
  /\ cycle' = [cycle EXCEPT !.n = IF caller = "sequential" THEN 0 ELSE @,
                             !.clobbered = @ \/ cycle.staged]
  /\ UNCHANGED <<conn, built, ctor, caller, peer>>

\* The caller's await on the terminal verb returns or throws.
Settle(c) ==
  /\ calls[c].pc = "done"
  /\ calls' = [calls EXCEPT ![c] = IdleCall]
  /\ UNCHANGED <<conn, built, ctor, sp, caller, peer, cycle>>

\* ------------------------------------------------------------------------
\* The same operations on the second instance
\* ------------------------------------------------------------------------

\* connectWithToken(siteHostname, accessToken), called a second time.
PeerConnectWithToken(hostname, accessToken) ==
  /\ ~peer.built
  /\ peer' = [peer EXCEPT !.built = TRUE,
                          !.sp = NewWrapper(hostname, ConnectHeaders(accessToken))]
  /\ UNCHANGED <<conn, built, ctor, sp, calls, caller, cycle>>

PeerCanConfigure == peer.built /\ peer.call.pc = "idle" /\ peer.n < MaxOps

PeerApi(siteName, endpoint) ==
  /\ PeerCanConfigure
  /\ peer' = [peer EXCEPT !.sp = api(@, siteName, endpoint), !.n = @ + 1]
  /\ UNCHANGED <<conn, built, ctor, sp, calls, caller, cycle>>

PeerIgnore ==
  /\ PeerCanConfigure
  /\ peer' = [peer EXCEPT !.sp = ignore(@), !.n = @ + 1]
  /\ UNCHANGED <<conn, built, ctor, sp, calls, caller, cycle>>

PeerSelect(fields) ==
  /\ PeerCanConfigure
  /\ peer' = [peer EXCEPT !.sp = select(@, fields), !.n = @ + 1]
  /\ UNCHANGED <<conn, built, ctor, sp, calls, caller, cycle>>

\* makeRequest(method, data) on the second instance, to its first await.
PeerMakeRequest(method, data) ==
  /\ peer.built
  /\ peer.call.pc = "idle"
  /\ LET w == peer.sp
         fullUrl == FullUrl(w)
         headers == MergedHeaders(w)
         frame == [IdleCall EXCEPT !.method = method, !.data = data, !.self = w]
     IN  peer' = [peer EXCEPT !.call =
           IF ~w.initialized
             THEN [frame EXCEPT !.pc = "done",
                                !.outcome = Outcome("configError", "", ConfigurationError)]
           ELSE IF NeedsDigest(method)
             THEN [frame EXCEPT !.pc = "digest", !.fullUrl = fullUrl,
                                !.headers = headers,
                                !.net = <<DigestRequest(w)>>]
           ELSE [frame EXCEPT !.pc = "dispatch", !.fullUrl = fullUrl,
                              !.headers = headers,
                              !.net = <<MainRequest(method, fullUrl, headers, data)>>]]
  /\ UNCHANGED <<conn, built, ctor, sp, calls, caller, cycle>>

PeerDigestOk(value) ==
  /\ peer.call.pc = "digest"
  /\ LET f == peer.call
         headers == InjectDigest(f.headers, value)
     IN  peer' = [peer EXCEPT !.call =
           [f EXCEPT !.pc = "dispatch", !.headers = headers, !.digest = value,
                     !.resumed = peer.sp,
                     !.net = Append(Answered(f.net),
                                    MainRequest(f.method, f.fullUrl, headers, f.data))]]
  /\ UNCHANGED <<conn, built, ctor, sp, calls, caller, cycle>>

PeerDigestFail(error) ==
  /\ peer.call.pc = "digest"
  /\ peer' = [peer EXCEPT !.call =
       [@ EXCEPT !.pc = "done", !.net = Answered(@),
                 !.outcome = Outcome("rawError", "", <<error.message>>)]]
  /\ UNCHANGED <<conn, built, ctor, sp, calls, caller, cycle>>

PeerDispatchOk(data) ==
  /\ peer.call.pc = "dispatch"
  /\ peer' = [peer EXCEPT !.call =
                 [@ EXCEPT !.pc = "done", !.net = Answered(@),
                           !.outcome = Outcome("value", data, <<>>)],
                          !.sp = ResetState(@), !.n = 0]
  /\ UNCHANGED <<conn, built, ctor, sp, calls, caller, cycle>>

PeerDispatchFail(error) ==
  /\ peer.call.pc = "dispatch"
  /\ peer' = [peer EXCEPT !.call =
                 [@ EXCEPT !.pc = "done", !.net = Answered(@),
                           !.caught = TRUE, !.error = error,
                           !.outcome = CatchOutcome(peer.sp, peer.call.method, error)],
                          !.sp = ResetState(@), !.n = 0]
  /\ UNCHANGED <<conn, built, ctor, sp, calls, caller, cycle>>

PeerSettle ==
  /\ peer.call.pc = "done"
  /\ peer' = [peer EXCEPT !.call = IdleCall]
  /\ UNCHANGED <<conn, built, ctor, sp, calls, caller, cycle>>

\* ------------------------------------------------------------------------
\* Specification: one caller that awaits each terminal verb before its next
\* call on the instance
\* ------------------------------------------------------------------------

ResponseBodies == {"payload"}

Connect ==
  \/ \E h \in Hostnames : ConnectWithSharePoint(h)
  \/ \E r \in TokenResponses : TokenResponse(r)
  \/ \E h \in KnownHostnames, t \in KnownTokens : ConnectWithToken(h, t)

Configure ==
  \/ \E s \in SiteNames, e \in SiteEndpoints : Api(s, e)
  \/ \E e \in AdminEndpoints : AdminApi(e)
  \/ \E o \in HeaderOverrides : SetHeaders(o)
  \/ Ignore
  \/ \E f \in SelectArgs : Select(f)
  \/ \E f \in FilterArgs : Filter(f)
  \/ \E f \in ExpandArgs : Expand(f)
  \/ \E f \in OrderFields, a \in BOOLEAN : OrderBy(f, a)
  \/ \E n \in Counts : Top(n)
  \/ \E n \in Counts : Skip(n)
  \/ \E p \in RawArgs : RawQuery(p)

Terminal == \E v \in VerbArgs : MakeRequest(v[1], v[2])

Network ==
  \/ \E c \in CallIds, v \in DigestValues : DigestOk(c, v)
  \/ \E c \in CallIds, e \in DigestErrors : DigestFail(c, e)
  \/ \E c \in CallIds, d \in ResponseBodies : DispatchOk(c, d)
  \/ \E c \in CallIds, e \in AxiosErrors : DispatchFail(c, e)
  \/ \E c \in CallIds : Settle(c)

Next ==
  \/ Connect
  \/ Configure
  \/ Terminal
  \/ Network

Spec == Init /\ [][Next]_vars

\* ------------------------------------------------------------------------
\* Specification: a caller that goes on using the instance while terminal
\* calls are pending (chains held across an await, Promise.all): two
\* terminal calls that may overlap, with the configuration calls of their
\* chains and of a third chain before, between and after them
\* ------------------------------------------------------------------------

InitConc ==
  /\ conn = [pc |-> "idle", siteHostname |-> <<>>, resp |-> [ok |-> FALSE, access_token |-> "", status |-> 0], error |-> ""]
  /\ built = FALSE
  /\ ctor = NoCtor
  /\ sp = NewWrapper(<<>>, EmptyMap)
  /\ calls = [c \in CallIds |-> IdleCall]
  /\ caller = "concurrent"
  /\ cycle = NewCycle(NoCtor)
  /\ peer = NoPeer

\* The two overlapping terminal calls.
ConcCalls == {c \in CallIds : c <= 2}

ConcOverrides == {o \in HeaderOverrides : "Authorization" \in DOMAIN o}

ConcDigests == {"digestA"}

ConcVerbs == {v \in VerbArgs : v[1] \in {"GET", "POST"}}

ConcErrors == {e \in AxiosErrors : e.status = 403}

ConcConnect == \E h \in Hostnames, t \in KnownTokens : ConnectWithToken(h, t)

ConcConfigure ==
  \/ \E s \in SiteNames, e \in SiteEndpoints : Api(s, e)
  \/ \E o \in ConcOverrides : SetHeaders(o)
  \/ Ignore
  \/ \E f \in SelectArgs : Select(f)

ConcTerminal ==
  \E v \in ConcVerbs :
    /\ \E c \in ConcCalls : calls[c].pc = "idle"
    /\ MakeRequest(v[1], v[2])

ConcNetwork ==
  \/ \E c \in ConcCalls, v \in ConcDigests : DigestOk(c, v)
  \/ \E c \in ConcCalls, e \in ConcErrors : DigestFail(c, e)
  \/ \E c \in ConcCalls, d \in ResponseBodies : DispatchOk(c, d)
  \/ \E c \in ConcCalls, e \in ConcErrors : DispatchFail(c, e)

NextConc ==
  \/ ConcConnect
  \/ ConcConfigure
  \/ ConcTerminal
  \/ ConcNetwork

SpecConc == InitConc /\ [][NextConc]_vars

\* ------------------------------------------------------------------------
\* Specification: two instances built from the same hostname and token,
\* each used by a caller that awaits its terminal verbs, the two callers
\* interleaved in any way
\* ------------------------------------------------------------------------

PeersFirst ==
  \/ \E h \in Hostnames, t \in KnownTokens : ConnectWithToken(h, t)
  \/ \E s \in SiteNames, e \in SiteEndpoints : Api(s, e)
  \/ Ignore
  \/ \E f \in SelectArgs : Select(f)
  \/ \E v \in ConcVerbs : MakeRequest(v[1], v[2])
  \/ \E c \in CallIds, v \in DigestValues : DigestOk(c, v)
  \/ \E c \in CallIds, e \in ConcErrors : DigestFail(c, e)
  \/ \E c \in CallIds, d \in ResponseBodies : DispatchOk(c, d)
  \/ \E c \in CallIds, e \in ConcErrors : DispatchFail(c, e)
  \/ \E c \in CallIds : Settle(c)

PeersSecond ==
  \/ \E h \in Hostnames, t \in KnownTokens : PeerConnectWithToken(h, t)
  \/ \E s \in SiteNames, e \in SiteEndpoints : PeerApi(s, e)
  \/ PeerIgnore
  \/ \E f \in SelectArgs : PeerSelect(f)
  \/ \E v \in ConcVerbs : PeerMakeRequest(v[1], v[2])
  \/ \E v \in DigestValues : PeerDigestOk(v)
  \/ \E e \in ConcErrors : PeerDigestFail(e)
  \/ \E d \in ResponseBodies : PeerDispatchOk(d)
  \/ \E e \in ConcErrors : PeerDispatchFail(e)
  \/ PeerSettle

NextPeers ==
  \/ PeersFirst
  \/ PeersSecond

SpecPeers == Init /\ [][NextPeers]_vars

\* ------------------------------------------------------------------------
\* Properties
\* ------------------------------------------------------------------------

\* The requests of one kind a call has issued, as positions in its log.
Requests(f, kind) == { i \in 1..Len(f.net) : f.net[i].kind = kind }

\* A text contains a piece.
Has(text, piece) == \E i \in 1..Len(text) : text[i] = piece

\* A URL splits at its "?" piece into the base URL and the query string.
QueryStart(url) ==
  IF Has(url, "?") THEN CHOOSE i \in 1..Len(url) : url[i] = "?" ELSE Len(url) + 1

BaseOf(url) == SubSeq(url, 1, QueryStart(url) - 1)

QueryOf(url) == SubSeq(url, QueryStart(url), Len(url))

\* A query string "?k=v&k=v..." read back: well formed, and its pairs.
WellFormedQuery(q) ==
  \/ q = <<>>
  \/ /\ Len(q) % 4 = 0
     /\ q[1] = "?"
     /\ \A i \in 1..Len(q) :
          /\ (i % 4 = 1 /\ i > 1) => q[i] = "&"
          /\ i % 4 = 3 => q[i] = "="

PairsOf(q) == { <<q[4 * i - 2], q[4 * i]>> : i \in 1..(Len(q) \div 4) }

\* C1: a terminal verb invoked with no stage entry since construction or
\* since the previous terminal call fails with the configuration error and
\* issues no request, digest or main.
C1_UnstagedVerbNotConfigured ==
  \A c \in CallIds :
    (calls[c].pc # "idle" /\ ~calls[c].cycle.staged)
      => /\ calls[c].pc = "done"
         /\ calls[c].outcome.kind = "configError"
         /\ calls[c].net = <<>>

\* C2: a chain with a stage entry, made after a terminal verb has resolved,
\* sends the request a freshly constructed instance given the same chain
\* would send (URL with query string, headers) and handles a failure by the
\* same policy.
C2_SameAsFreshInstance ==
  \A c \in CallIds :
    LET f == calls[c]
        w == f.cycle.fresh
    IN  (f.pc # "idle" /\ f.cycle.staged)
          => /\ f.outcome.kind # "configError"
             /\ f.fullUrl = FullUrl(w)
             /\ f.pc = "digest" => f.headers = MergedHeaders(w)
             /\ \A i \in Requests(f, "main") :
                  /\ f.net[i].url = FullUrl(w)
                  /\ f.net[i].headers =
                       IF f.method = "GET" THEN MergedHeaders(w)
                       ELSE [k \in DOMAIN MergedHeaders(w) \cup {"X-RequestDigest"} |->
                               IF k = "X-RequestDigest" THEN f.net[i].headers[k]
                               ELSE MergedHeaders(w)[k]]
             /\ f.caught => ((f.outcome.kind = "null") <=> w.shouldIgnoreErrors)

\* C3: when ignore() was chained after the stage entry and the main
\* dispatch fails, with a response or without one, the terminal verb
\* resolves to null, whatever the verb.
C3_IgnoredFailureResolvesNull ==
  \A c \in CallIds :
    (calls[c].pc = "done" /\ calls[c].caught /\ calls[c].cycle.ignored)
      => calls[c].outcome.kind = "null"

\* C3 happens: a PATCH with ignore() chained whose main dispatch failed
\* without a response has resolved to null.
C3_Witness ==
  \E c \in CallIds :
    /\ calls[c].pc = "done" /\ calls[c].caught /\ calls[c].cycle.ignored
    /\ calls[c].method = "PATCH"
    /\ calls[c].error.status = 0
    /\ calls[c].outcome.kind = "null"

\* C4: a GET issues no digest fetch; a POST, PUT, PATCH or DELETE made on a
\* configured instance issues exactly one, first, and its main dispatch is
\* issued only after the digest fetch has been answered.
C4_DigestBeforeDispatch ==
  \A c \in CallIds :
    LET f == calls[c]
    IN  (f.pc # "idle" /\ f.outcome.kind # "configError")
          => /\ f.method = "GET" => Requests(f, "digest") = {}
             /\ f.method # "GET" =>
                  /\ Requests(f, "digest") = {1}
                  /\ \A i \in Requests(f, "main") : i > 1 /\ f.net[1].done
             /\ Cardinality(Requests(f, "main")) <= 1
             /\ f.outcome.kind \in {"value", "null", "spError"}
                  => Requests(f, "main") # {}

\* C4 happens: a DELETE is at its main dispatch after its one digest fetch
\* was answered.
C4_Witness ==
  \E c \in CallIds :
    /\ calls[c].method = "DELETE"
    /\ calls[c].pc = "dispatch"
    /\ Len(calls[c].net) = 2
    /\ calls[c].net[1].kind = "digest" /\ calls[c].net[1].done
    /\ calls[c].net[2].kind = "main" /\ ~calls[c].net[2].done

\* C5: right after a stage entry, made in any state, queryParams is empty,
\* the ignore-errors flag is false and the temporary header overlay is empty.
C5_StageEntryResetsOverrides ==
  (built /\ cycle.lastOp \in {"api", "adminApi"})
    => /\ sp.queryParams = <<>>
       /\ ~sp.shouldIgnoreErrors
       /\ sp.tempHeaders = EmptyMap

\* C6: after one stage entry and any modifiers, the query string of the
\* request holds exactly the keys those modifiers set, each once and with
\* its last value, and the URL has no "?" when no key was set.
C6_QueryStringIsLastValues ==
  \A c \in CallIds :
    LET f == calls[c]
        q == QueryOf(f.fullUrl)
        want == f.cycle.params
    IN  (f.pc # "idle" /\ f.cycle.staged /\ f.outcome.kind # "configError")
          => /\ WellFormedQuery(q)
             /\ PairsOf(q) = { <<k, want[k]>> : k \in DOMAIN want }
             /\ Len(q) \div 4 = Cardinality(DOMAIN want)
             /\ DOMAIN want = {} => ~Has(f.fullUrl, "?")
             /\ \A i \in Requests(f, "main") : f.net[i].url = f.fullUrl

\* C6 happens: a rawQuery overwrote the $select of an earlier select and
\* added a key, and the request carries both with their last values.
C6_Witness ==
  \E c \in CallIds :
    /\ calls[c].pc = "dispatch" /\ calls[c].cycle.staged
    /\ calls[c].cycle.overwritten
    /\ calls[c].cycle.lastOp = "rawQuery"
    /\ calls[c].cycle.params = ("$select" :> "x") @@ ("custom" :> "1")
    /\ QueryOf(calls[c].net[1].url) = <<"?", "$select", "=", "x", "&", "custom", "=", "1">>

\* C7: when ignore() is not chained in the cycle and the main dispatch
\* fails, the terminal verb fails with one error whose message holds the
\* method, the endpoint of the cycle, the status if the failure has one, the
\* remote code if it has one, and the remote message or else the
\* transport's.
C7_FailureRaisesEnrichedError ==
  \A c \in CallIds :
    LET f == calls[c]
        e == f.error
    IN  (f.pc = "done" /\ f.caught /\ f.cycle.staged /\ ~f.cycle.fresh.shouldIgnoreErrors)
          => /\ f.outcome.kind = "spError"
             /\ Has(f.outcome.message, f.method)
             /\ Has(f.outcome.message, f.cycle.entry.endpoint)
             /\ e.status # 0 => Has(f.outcome.message, Decimal(e.status \div 100)
                                      \o Decimal((e.status \div 10) % 10)
                                      \o Decimal(e.status % 10))
             /\ e.code # "" => Has(f.outcome.message, e.code)
             /\ e.remoteMessage # "" => Has(f.outcome.message, e.remoteMessage)
             /\ (e.remoteMessage = "" /\ e.message # "") => Has(f.outcome.message, e.message)

\* C8: the token provider never raises; connectWithSharePoint fails with
\* 'Failed to obtain access token' exactly when no token was obtained (the
\* POST failed, or its body has no access_token), and otherwise resolves to
\* a builder whose headers are Accept, Content-Type and Authorization
\* 'Bearer <token>'.
C8_ConnectFailsWithoutToken ==
  /\ conn.pc = "rejected" =>
       /\ conn.error = "Failed to obtain access token for SharePoint."
       /\ ~built
       /\ ~conn.resp.ok \/ conn.resp.access_token = ""
  /\ conn.pc = "resolved" =>
       /\ conn.resp.ok /\ conn.resp.access_token # ""
       /\ built
       /\ sp.siteHostname = conn.siteHostname
       /\ DOMAIN sp.headers = {"Accept", "Content-Type", "Authorization"}
       /\ sp.headers["Accept"] = "application/json;odata=verbose"
       /\ sp.headers["Content-Type"] = "application/json;odata=verbose"
       /\ sp.headers["Authorization"] = "Bearer " \o conn.resp.access_token

\* C8 happens: the token POST was rejected with status 400 and
\* connectWithSharePoint has failed.
C8_Witness ==
  /\ conn.pc = "rejected"
  /\ ~conn.resp.ok
  /\ conn.resp.status = 400

\* The hostname with a trailing '.sharepoint.com' stripped.
WithoutSuffix(hostname) ==
  IF Len(hostname) > 0 /\ hostname[Len(hostname)] = SharePointSuffix
    THEN SubSeq(hostname, 1, Len(hostname) - 1)
    ELSE hostname

\* C9: the base URL of a request is
\* https://{hostname}/sites/{siteName}/_api/{endpoint} after api, and
\* https://{hostname without a trailing .sharepoint.com}-admin.sharepoint.com/_api/{endpoint}
\* after adminApi, for every configured hostname.
C9_BaseUrlByStageEntry ==
  \A c \in CallIds :
    LET f == calls[c]
        entry == f.cycle.entry
    IN  (f.pc # "idle" /\ f.cycle.staged /\ f.outcome.kind # "configError")
          => BaseOf(f.fullUrl) =
               IF f.cycle.lastOp = "adminApi" \/ entry.siteName = ""
                 THEN <<"https://">> \o WithoutSuffix(ctor.siteHostname)
                      \o <<"-admin.sharepoint.com/_api/", entry.endpoint>>
                 ELSE <<"https://">> \o ctor.siteHostname
                      \o <<"/sites/", entry.siteName, "/_api/", entry.endpoint>>

\* C10: once ignore() has been chained in a cycle, the terminal verb
\* dispatches no HTTP call.
C10_IgnoreSkipsRequest ==
  \A c \in CallIds :
    (calls[c].pc # "idle" /\ calls[c].cycle.ignored) => calls[c].net = <<>>

\* A terminal call made after a stage entry has ended.
Resolved(f) == f.pc = "done" /\ f.outcome.kind # "configError"

\* C11: once a terminal call made on a staged instance has ended, by a
\* value, an ignored failure or a raised failure, the instance has no
\* temporary headers, is not in admin mode, does not ignore errors, is not
\* initialized and has no query parameters.
C11_ResetOnEveryOutcome ==
  \A c \in CallIds :
    Resolved(calls[c])
      => /\ sp.tempHeaders = EmptyMap
         /\ ~sp.isAdmin
         /\ ~sp.shouldIgnoreErrors
         /\ ~sp.initialized
         /\ sp.queryParams = <<>>

\* C12: a terminal call made on a staged instance that fails, at the digest
\* fetch or at the main dispatch, ends as null or as the enriched error;
\* no error of the transport leaves it as it is.
C12_FailureIsNullOrEnriched ==
  \A c \in CallIds :
    LET f == calls[c]
    IN  (Resolved(f) /\ f.outcome.kind # "value")
          => /\ f.outcome.kind \in {"null", "spError"}
             /\ f.outcome.kind = "spError" =>
                  f.outcome.message[1] = "Microsoft SharePoint API Error at: "

\* C13: the main request of a POST, PUT, PATCH or DELETE carries, as
\* X-RequestDigest, the value the digest fetch of that same call returned,
\* whatever X-RequestDigest setHeaders() supplied and whatever an earlier
\* call received; a call whose digest fetch failed makes no main request.
C13_DigestOfSameCall ==
  \A c \in CallIds :
    LET f == calls[c]
    IN  /\ \A i \in Requests(f, "main") :
             f.method # "GET"
               => /\ i = 2
                  /\ f.net[1].kind = "digest" /\ f.net[1].done
                  /\ f.digest \in DigestValues
                  /\ "X-RequestDigest" \in DOMAIN f.net[i].headers
                  /\ f.net[i].headers["X-RequestDigest"] = f.digest
        /\ (f.pc = "done" /\ f.outcome.kind = "rawError")
             => /\ Requests(f, "main") = {}
                /\ f.digest = ""

\* C13 happens: a PUT chained after setHeaders() with an X-RequestDigest of
\* its own has been dispatched with the digest its fetch returned.
C13_Witness ==
  \E c \in CallIds :
    /\ calls[c].pc = "dispatch" /\ calls[c].method = "PUT"
    /\ "X-RequestDigest" \in DOMAIN calls[c].cycle.fresh.tempHeaders
    /\ calls[c].digest = "digestB"
    /\ calls[c].net[2].headers["X-RequestDigest"] = "digestB"

\* Headers with the digest header left out.
WithoutDigest(headers) ==
  [k \in (DOMAIN headers) \ {"X-RequestDigest"} |-> headers[k]]

\* C14: the headers of the main request are the headers the instance was
\* constructed with, overlaid by the argument of the last setHeaders() of
\* the cycle alone (its keys win; none when the cycle has no setHeaders()),
\* plus the digest on a write; the digest fetch goes to
\* https://{hostname}/_api/contextinfo with the constructed headers only,
\* after api() and after adminApi().
C14_HeadersAreBaseThenOverlay ==
  \A c \in CallIds :
    LET f == calls[c]
        overlay == f.cycle.overlay
    IN  /\ \A i \in Requests(f, "main") :
             \A k \in DOMAIN ctor.headers \cup DOMAIN overlay \cup DOMAIN f.net[i].headers :
               /\ k \in DOMAIN f.net[i].headers
               /\ k \in DOMAIN overlay /\ (k # "X-RequestDigest" \/ f.method = "GET")
                    => f.net[i].headers[k] = overlay[k]
               /\ k \notin DOMAIN overlay
                    => \/ k \in DOMAIN ctor.headers /\ f.net[i].headers[k] = ctor.headers[k]
                       \/ k = "X-RequestDigest" /\ f.method # "GET"
        /\ \A i \in Requests(f, "digest") :
             /\ f.net[i].url = <<"https://">> \o ctor.siteHostname \o <<"/_api/contextinfo">>
             /\ f.net[i].headers = ctor.headers
             /\ f.net[i].method = "POST"

\* C15: whatever has been called on the instance, its base headers and its
\* hostname are those it was constructed with: the three headers of the
\* connect functions, without the digest or a key or value of an overlay.
C15_BaseHeadersAndHostnameFixed ==
  built
    => /\ sp.headers = ctor.headers
       /\ sp.siteHostname = ctor.siteHostname
       /\ DOMAIN sp.headers = {"Accept", "Content-Type", "Authorization"}
       /\ \A o \in HeaderOverrides :
            \A k \in DOMAIN o \cap DOMAIN sp.headers : sp.headers[k] # o[k]
       /\ \A c \in CallIds : \A i \in Requests(calls[c], "digest") :
            calls[c].net[i].headers = ctor.headers

\* C15 happens: a write whose main request carried the digest and the
\* Authorization of an overlay has resolved, and the instance still has
\* the Authorization it was constructed with.
C15_Witness ==
  \E d \in CallIds :
    /\ calls[d].pc = "done" /\ calls[d].outcome.kind = "value"
    /\ sp.headers["Authorization"] = "Bearer tokB"
    /\ calls[d].method = "POST"
    /\ calls[d].net[2].headers["Authorization"] = "Bearer other"
    /\ "X-RequestDigest" \in DOMAIN calls[d].net[2].headers

\* C16: with terminal calls pending while the caller goes on using the
\* instance, the finally block of one call takes away what another chain
\* set: a chain whose stage entry was made before that finally block ran
\* fails at its terminal verb with the configuration error and sends
\* nothing, its query parameters included; and a pending call of a chain
\* with ignore() whose flag that finally block cleared raises its failure
\* instead of resolving to null.
C16_ResetClobbersOtherChain ==
  \A c \in CallIds :
    LET f == calls[c]
    IN  /\ (f.pc # "idle" /\ f.cycle.staged /\ f.cycle.clobbered)
             => /\ f.pc = "done"
                /\ f.outcome.kind = "configError"
                /\ f.net = <<>>
        /\ (f.pc = "done" /\ f.caught /\ f.cycle.ignored /\ f.flagCleared)
             => f.outcome.kind = "spError"

\* C16 happens: a chain with a stage entry and select() has failed with the
\* configuration error, because a call that was pending when the chain was
\* built resolved before its terminal verb.
C16_Witness ==
  \E c, d \in CallIds :
    /\ calls[c].pc = "done" /\ calls[c].outcome.kind = "configError"
    /\ calls[c].cycle.staged /\ calls[c].cycle.clobbered
    /\ "$select" \in DOMAIN calls[c].cycle.params
    /\ calls[d].pc = "done" /\ calls[d].outcome.kind = "value"

\* C16 happens, ignore policy: a call of a chain with ignore() has raised
\* the enriched error, because another call resolved while it was pending.
C16_PolicyWitness ==
  \E c \in CallIds :
    /\ calls[c].pc = "done" /\ calls[c].caught
    /\ calls[c].cycle.ignored /\ calls[c].flagCleared
    /\ calls[c].outcome.kind = "spError"

\* C18: the main request of a terminal call has the method the verb was
\* invoked with and the URL and the merged headers of the instance as it
\* was at the invocation (plus the digest on a write), whatever was called
\* on the instance or reset on it while the call waited for its digest.
C18_RequestFixedAtInvocation ==
  \A c \in CallIds :
    LET f == calls[c]
    IN  \A i \in Requests(f, "main") :
          /\ f.net[i].method = f.method
          /\ f.net[i].url = FullUrl(f.self)
          /\ f.net[i].headers =
               IF f.method = "GET" THEN MergedHeaders(f.self)
               ELSE InjectDigest(MergedHeaders(f.self), f.digest)

\* C18 happens: a POST has been dispatched whose instance, when the digest
\* arrived, was staged with another query string and other temporary
\* headers than at the invocation.
C18_Witness ==
  \E c \in CallIds :
    /\ calls[c].method = "POST" /\ calls[c].pc = "dispatch"
    /\ calls[c].resumed.initialized
    /\ FullUrl(calls[c].resumed) # FullUrl(calls[c].self)
    /\ MergedHeaders(calls[c].resumed) # MergedHeaders(calls[c].self)

\* C18 happens, reset: a POST has been dispatched after the finally block of
\* another call had reset the instance while it waited for its digest.
C18_ResetWitness ==
  \E c \in CallIds :
    /\ calls[c].method = "POST" /\ calls[c].pc = "dispatch"
    /\ calls[c].flagCleared
    /\ ~calls[c].resumed.initialized
    /\ calls[c].self.queryParams # <<>>

\* All that belongs to the first instance and its caller.
FirstInstance == <<conn, built, ctor, sp, calls, caller, cycle>>

\* A call sends the request of its own instance as it was at the invocation
\* and handles a failure by the ignore flag of its own instance.
OwnRequest(f) ==
  /\ \A i \in Requests(f, "main") :
       /\ f.net[i].url = FullUrl(f.self)
       /\ WithoutDigest(f.net[i].headers) = WithoutDigest(MergedHeaders(f.self))
  /\ \A i \in Requests(f, "digest") :
       /\ f.net[i].url = ContextInfoUrl(f.self)
       /\ f.net[i].headers = f.self.headers
  /\ f.pc # "idle" => ((f.outcome.kind = "configError") <=> ~f.self.initialized)
  /\ f.caught => ((f.outcome.kind = "null") <=> f.self.shouldIgnoreErrors)

\* C17: with two instances, built from the same hostname and token and used
\* in any interleaving, every step of one instance leaves all state of the
\* other unchanged, and every call sends the request and handles a failure
\* as the state of its own instance at its invocation says.
C17_InstancesIndependent ==
  /\ [](OwnRequest(peer.call) /\ \A c \in CallIds : OwnRequest(calls[c]))
  /\ [][peer' = peer \/ FirstInstance' = FirstInstance]_vars

\* C17 happens: both instances were built from the same hostname and token;
\* the second has had a call resolved and its state reset, while the first
\* is staged with ignore() and select() and has a call in flight.
C17_Witness ==
  /\ built /\ peer.built
  /\ sp.siteHostname = peer.sp.siteHostname /\ sp.headers = peer.sp.headers
  /\ peer.call.pc = "done" /\ peer.call.outcome.kind = "value"
  /\ peer.call.self.initialized /\ ~peer.sp.initialized
  /\ \E c \in CallIds :
       /\ calls[c].pc = "dispatch"
       /\ sp.initialized /\ sp.shouldIgnoreErrors /\ sp.queryParams # <<>>

====
